---- MODULE Spec2Model ----
(***************************************************************************)
(* State-diff builder of statediff/builder.go: one invocation of           *)
(* WriteStateDiffObject over two state tries held by a content-addressed   *)
(* store, with the records it pushes to the state sink; BuildStateDiffObject*)
(* and BuildStateTrieObject, which return the records as a StateObject; and *)
(* two calls in a row, the second set against the first.                   *)
(*                                                                         *)
(* MockStateDiffService of statediff/testhelpers/mocks/api.go: the         *)
(* goroutine of Loop with send and close, the calls of Subscribe,          *)
(* Unsubscribe and Stop, and the mutex and the channels they share.        *)
(*                                                                         *)
(* Scale: a trie key is one byte (two nibbles) instead of 32 bytes, so     *)
(* that every trie shape (leaf at the root, branch, extension + branch,    *)
(* nested branch) occurs with at most three accounts.  A hash is modelled  *)
(* collision-free, as the tagged content it commits to.                    *)
(*                                                                         *)
(* The store holds every node of a trie it can open, well-formed: the      *)
(* error returns for a failed node lookup, a failed RLP decode, an unknown *)
(* node type and it.Error() are not taken.  Opening a trie, reading a      *)
(* contract code and calling the sink can fail.                            *)
(***************************************************************************)
EXTENDS Integers, Sequences, FiniteSets, TLC

\* ------------------------------------------------------------------ bounds
\* most blocks, and most parent blocks, sent to the service
MaxBlocks == 2

\* most accounts held by one state trie
MaxAccounts == 2

\* most slots held by one storage trie
MaxSlots == 2

\* ------------------------------------------------------- sequences helpers
Last(s) == s[Len(s)]

RECURSIVE SeqLess(_, _)
\* strict lexicographic order on sequences of numbers (sort.Strings on hex)
SeqLess(s, t) ==
    IF Len(s) = 0 THEN Len(t) > 0
    ELSE IF Len(t) = 0 THEN FALSE
    ELSE IF s[1] # t[1] THEN s[1] < t[1]
    ELSE SeqLess(Tail(s), Tail(t))

IsPrefix(p, s) == Len(p) <= Len(s) /\ SubSeq(s, 1, Len(p)) = p

Drop(s, n) == SubSeq(s, n + 1, Len(s))

Range(s) == {s[i] : i \in 1..Len(s)}

\* ------------------------------------------------------------ hashes, code
\* Keccak-256 of a content: collision-free, so the content tagged
Keccak256Hash(content) == <<"keccak", content>>

\* common.Hash{} and nullHashBytes: the all-zero hash, the hash of nothing
nullHashBytes == <<"zero", {}>>

\* the hash of the empty trie (Keccak256 of the RLP of the empty string)
emptyContractRoot == Keccak256Hash({})

\* contract codes of the store; the first is the empty code
EmptyCode == <<>>
Code1 == <<96, 0>>

nullCodeHash == Keccak256Hash(EmptyCode)

\* ------------------------------------------------ compact (hex-prefix) keys
hasTerm(s) == Len(s) > 0 /\ Last(s) = 16

RECURSIVE decodeNibbles(_)
decodeNibbles(nibbles) ==
    IF Len(nibbles) < 2 THEN <<>>
    ELSE <<nibbles[1] * 16 + nibbles[2]>> \o decodeNibbles(Drop(nibbles, 2))

RECURSIVE keybytesToHex(_)
keybytesToHex(str) ==
    IF Len(str) = 0 THEN <<16>>
    ELSE <<str[1] \div 16, str[1] % 16>> \o keybytesToHex(Tail(str))

HexToCompact(hex) ==
    LET terminator == IF hasTerm(hex) THEN 1 ELSE 0
        h    == IF hasTerm(hex) THEN SubSeq(hex, 1, Len(hex) - 1) ELSE hex
        odd  == Len(h) % 2 = 1
        b0   == terminator * 32 + (IF odd THEN 16 + h[1] ELSE 0)
        rest == IF odd THEN Tail(h) ELSE h
    IN  <<b0>> \o decodeNibbles(rest)

CompactToHex(compact) ==
    IF Len(compact) = 0 THEN compact
    ELSE LET base0 == keybytesToHex(compact)
             base  == IF base0[1] < 2 THEN SubSeq(base0, 1, Len(base0) - 1) ELSE base0
             chop  == 2 - (base[1] % 2)
         IN  Drop(base, chop)

\* common.Bytes2Hex: two hex digits per byte (a digit is its value 0..15)
RECURSIVE Bytes2Hex(_)
Bytes2Hex(b) ==
    IF Len(b) = 0 THEN <<>>
    ELSE <<b[1] \div 16, b[1] % 16>> \o Bytes2Hex(Tail(b))

\* ----------------------------------------------------------------- tries
\* A trie is its content: a set of <<key nibbles, value>> pairs; a node of it
\* commits to the pairs below it, keys taken relative to the node.

KeysOf(content) == {kv[1] : kv \in content}

RECURSIVE CommonPrefixLen(_, _)
\* length of the longest common prefix of the keys of a non-empty content
CommonPrefixLen(content, n) ==
    LET k == CHOOSE x \in KeysOf(content) : TRUE
    IN  IF Len(k) > n /\ \A x \in KeysOf(content) : Len(x) > n /\ x[n + 1] = k[n + 1]
        THEN CommonPrefixLen(content, n + 1)
        ELSE n

CommonPrefix(content) ==
    LET k == CHOOSE x \in KeysOf(content) : TRUE
    IN  SubSeq(k, 1, CommonPrefixLen(content, 0))

\* the pairs below the given relative prefix, keys taken relative to it
Below(content, prefix) ==
    {<<Drop(kv[1], Len(prefix)), kv[2]>> : kv \in {x \in content : IsPrefix(prefix, x[1])}}

\* the encoded node that hashes to Keccak256Hash(content): a list of 2 or 17
NodeElements(content) ==
    IF Cardinality(content) = 1
    THEN LET kv == CHOOSE x \in content : TRUE
         IN  <<HexToCompact(kv[1] \o <<16>>), kv[2]>>
    ELSE IF CommonPrefixLen(content, 0) > 0
    THEN <<HexToCompact(CommonPrefix(content)),
           Keccak256Hash(Below(content, CommonPrefix(content)))>>
    ELSE [i \in 1..17 |->
            IF i < 17 /\ Below(content, <<i - 1>>) # {}
            THEN Keccak256Hash(Below(content, <<i - 1>>))
            ELSE <<>>]

\* TrieDB().Node(hash): the encoded node stored under a hash
TrieDBNode(hash) == NodeElements(hash[2])

RECURSIVE SubtreeIterator(_, _)
RECURSIVE ChildrenIterator(_, _, _)
\* pre-order walk of the subtree that holds content at path
SubtreeIterator(content, path) ==
    LET self == [Path |-> path, Hash |-> Keccak256Hash(content),
                 Leaf |-> FALSE, LeafBlob |-> <<>>]
    IN  IF Cardinality(content) = 1
        THEN LET kv == CHOOSE x \in content : TRUE
             IN  <<self, [Path |-> path \o kv[1] \o <<16>>, Hash |-> nullHashBytes,
                          Leaf |-> TRUE, LeafBlob |-> kv[2]]>>
        ELSE IF CommonPrefixLen(content, 0) > 0
        THEN <<self>> \o SubtreeIterator(Below(content, CommonPrefix(content)),
                                         path \o CommonPrefix(content))
        ELSE <<self>> \o ChildrenIterator(content, path, 0)

ChildrenIterator(content, path, i) ==
    IF i > 15 THEN <<>>
    ELSE (IF Below(content, <<i>>) = {} THEN <<>>
          ELSE SubtreeIterator(Below(content, <<i>>), path \o <<i>>))
         \o ChildrenIterator(content, path, i + 1)

\* trie.NodeIterator([]byte{}): every node of the trie, pre-order
NodeIterator(trie) == IF trie = {} THEN <<>> ELSE SubtreeIterator(trie, <<>>)

SameNode(x, y) ==
    /\ x.Path = y.Path
    /\ x.Leaf = y.Leaf
    /\ x.Hash = y.Hash
    /\ (x.Leaf => x.LeafBlob = y.LeafBlob)

SelectSeqIn(s, a) ==
    LET F[i \in 0..Len(s)] ==
            IF i = 0 THEN <<>>
            ELSE IF \E j \in 1..Len(a) : SameNode(a[j], s[i])
                 THEN F[i - 1] ELSE Append(F[i - 1], s[i])
    IN  F[Len(s)]

\* trie.NewDifferenceIterator(a, b): the nodes of b that a does not have
NewDifferenceIterator(a, b) == SelectSeqIn(b, a)

\* ------------------------------------------------------------ node codec
Leaf == "Leaf"
Extension == "Extension"
Branch == "Branch"
Removed == "Removed"
Unknown == "Unknown"

\* CheckKeyType: the type of a decoded node, from its element count and the
\* flag nibble of its compact key
CheckKeyType(elements) ==
    IF Len(elements) = 17 THEN Branch
    ELSE IF Len(elements) # 2 THEN Unknown
    ELSE LET flag == elements[1][1] \div 16
         IN  IF flag \in {0, 1} THEN Extension
             ELSE IF flag \in {2, 3} THEN Leaf
             ELSE Unknown

\* the leaf key taken from the leaf's own partial path alone
LeafKeyOf_PartialOnly(nodePath, elements) ==
    Tail(HexToCompact(CompactToHex(elements[1])))

\* the leaf key of the leaf node found at nodePath: the node path and the
\* leaf's own partial path, re-encoded to compact form, flag byte stripped
LeafKeyOf(nodePath, elements) ==
    LET partialPath   == CompactToHex(elements[1])
        valueNodePath == nodePath \o partialPath
        encodedPath   == HexToCompact(valueNodePath)
    IN  Tail(encodedPath)

\* it.Leaf() and the null-hash test: the iterator steps every loop skips
Skipped(n) == n.Leaf \/ n.Hash = nullHashBytes

RECURSIVE SkipNodes(_)
\* the iterator from its next step that the loop body processes
SkipNodes(iter) ==
    IF Len(iter) = 0 THEN iter
    ELSE IF Skipped(Head(iter)) THEN SkipNodes(Tail(iter))
    ELSE iter

\* ------------------------------------------------------------------ errors
nil == <<>>

\* the error handed up as it came
Errorf_Unwrapped(context, err) == err

\* fmt.Errorf("<context>: %v", err): a new error, its text the context
\* followed by the text of err
Errorf(context, err) == <<context>> \o err

\* the error a failing sink returns, and the one of a failing store lookup
SinkError == <<"sink failure">>
MissingNode == <<"missing trie node">>
MissingCode == <<"code not found">>

\* --------------------------------------------------------------- the world
Addresses == {"addrA", "addrB", "addrC"}

\* crypto.Keccak256 of an address: an injective table onto one-byte keys
Keccak256(addr) ==
    CASE addr = "addrA" -> <<0>>
      [] addr = "addrB" -> <<1>>
      [] addr = "addrC" -> <<16>>

\* the trie key (nibbles) of an address
KeyOf(addr) == Bytes2Hex(Keccak256(addr))

\* the hashed keys of three storage slots, none of them the key of an account
Slot1 == <<34>>
Slot2 == <<35>>
Slot3 == <<50>>
Storage1 == {<<Bytes2Hex(Slot1), 42>>}
Storage2 == {<<Bytes2Hex(Slot1), 42>>, <<Bytes2Hex(Slot2), 9>>}

Account1 == [Nonce |-> 1, Balance |-> 100,
             Root |-> emptyContractRoot, CodeHash |-> nullCodeHash]
Account2 == [Nonce |-> 1, Balance |-> 200,
             Root |-> emptyContractRoot, CodeHash |-> nullCodeHash]
Contract1 == [Nonce |-> 1, Balance |-> 100,
              Root |-> Keccak256Hash(Storage1), CodeHash |-> Keccak256Hash(Code1)]

AccountValues == {Account1, Account2, Contract1}

\* every world state with at most MaxAccounts accounts, as a trie content
StateTries ==
    UNION {{ {<<KeyOf(a), f[a]>> : a \in S} : f \in [S -> AccountValues]}
           : S \in {X \in SUBSET Addresses : Cardinality(X) <= MaxAccounts}}

ParamsSet ==
    {[IntermediateStateNodes |-> i, WatchedAddresses |-> w,
      IntermediateStorageNodes |-> TRUE, WatchedStorageSlots |-> {}]
        : i \in BOOLEAN, w \in {{}, {"addrA"}}}
    \cup
    {[IntermediateStateNodes |-> TRUE, WatchedAddresses |-> {},
      IntermediateStorageNodes |-> FALSE, WatchedStorageSlots |-> {Slot1}]}

\* the world of the storage tries: every storage with at most MaxSlots slots
StorageSlots == {Slot1, Slot2, Slot3}

SlotValues(slot) == IF slot = Slot1 THEN {42, 9} ELSE {9}

StorageTries ==
    UNION {{ {<<Bytes2Hex(k), f[k]>> : k \in S}
             : f \in {g \in [S -> {42, 9}] : \A k \in S : g[k] \in SlotValues(k)}}
           : S \in {X \in SUBSET StorageSlots : Cardinality(X) <= MaxSlots}}

\* accounts with every storage, with and without code
StorageAccounts ==
    {[Nonce |-> 1, Balance |-> 100, Root |-> Keccak256Hash(t), CodeHash |-> c]
        : t \in StorageTries, c \in {nullCodeHash, Keccak256Hash(Code1)}}

\* world states of two addresses: one with any of these accounts, the other
\* with one contract
StorageStateTries ==
    {x \cup y : x \in {{}} \cup {{<<KeyOf("addrA"), v>>} : v \in StorageAccounts},
                y \in {{}, {<<KeyOf("addrC"), Contract1>>}}}

StorageParamsSet ==
    {[IntermediateStateNodes |-> TRUE, WatchedAddresses |-> {},
      IntermediateStorageNodes |-> i, WatchedStorageSlots |-> w]
        : i \in BOOLEAN, w \in {{}, {Slot1}}}
    \cup
    {[IntermediateStateNodes |-> FALSE, WatchedAddresses |-> {},
      IntermediateStorageNodes |-> TRUE, WatchedStorageSlots |-> {}]}

\* ------------------------------------------------------------------ state
VARIABLES
    OldStateRoot,       \* args.OldStateRoot
    NewStateRoot,       \* args.NewStateRoot
    params,             \* the Params of the invocation
    missing,            \* the trie roots the state cache cannot open
    pc,                 \* where the invocation stands
    it,                 \* the iterator of the running pass: the steps left
    diffAccountsAtB,    \* AccountMap: hex leaf key -> account wrapper at B
    diffPathsAtB,       \* the hex paths recorded by the first pass
    diffAccountsAtA,    \* AccountMap: hex leaf key -> account wrapper at A
    updatedKeys,        \* the keys buildAccountUpdates has still to visit
    ranged,             \* the keys the range loop of the creations has visited
    codeAndCodeHashes,  \* the list buildAccountCreations is building
    output,             \* every StateNode passed to the sink, in call order
    outputPass,         \* for each of them, the pass that passed it
    answers,            \* for each of them, what the sink returned: nil or an error
    retCodes,           \* the returned code-and-hash list
    retErr,             \* the returned error
    caller,             \* the method of the Builder that was called
    stateNodes,         \* the slice buildStateTrie is building
    retObject,          \* the StateObject a Build method returned
    previous,           \* what the call before this one passed and returned
    Mutex,              \* sds.Mutex: "" unlocked, or the function that locked it
    Subscriptions,      \* sds.Subscriptions: id -> Subscription
    PayloadChans,       \* id -> what the payload channel of its subscription holds
    QuitChans,          \* id -> what the quit channel of its subscription holds
    QuitChan,           \* sds.QuitChan: "open" or "closed"
    BlockChan,          \* sds.BlockChan: the block a sender is waiting to hand over
    ParentBlockChan,    \* sds.ParentBlockChan: the same for the parent block
    loop,               \* the goroutine of Loop: where it stands, and its locals
    client,             \* the goroutine that calls the API: its call, where it stands
    sent                \* how many blocks and parent blocks the senders have sent

vars == <<OldStateRoot, NewStateRoot, params, missing, pc, it, diffAccountsAtB,
          diffPathsAtB, diffAccountsAtA, updatedKeys, ranged, codeAndCodeHashes,
          output, outputPass, answers, retCodes, retErr,
          caller, stateNodes, retObject, previous,
          Mutex, Subscriptions, PayloadChans, QuitChans, QuitChan, BlockChan,
          ParentBlockChan, loop, client, sent>>

\* the state of the Builder
builder == <<OldStateRoot, NewStateRoot, params, missing, pc, it, diffAccountsAtB,
             diffPathsAtB, diffAccountsAtA, updatedKeys, ranged, codeAndCodeHashes,
             output, outputPass, answers, retCodes, retErr,
             caller, stateNodes, retObject, previous>>

\* the state of the MockStateDiffService, which no method of the Builder touches
service == <<Mutex, Subscriptions, PayloadChans, QuitChans, QuitChan, BlockChan,
             ParentBlockChan, loop, client, sent>>

inputs == <<OldStateRoot, NewStateRoot, params, missing>>

\* what the passes of WriteStateDiffObject never touch
calls == <<caller, stateNodes, retObject, previous>>

\* StateObject{Nodes: nodes, CodeAndCodeHashes: codes}
StateObject(nodes, codes) == [Nodes |-> nodes, CodeAndCodeHashes |-> codes]

\* StateObject{}
EmptyStateObject == StateObject(<<>>, <<>>)

\* stateCache.OpenTrie(root): the trie of a root, which is its content
OpenTrie(root) == root[2]

\* no failure of OpenTrie noticed
OpenFails_Never(root) == FALSE

\* `oldTrie, err := sdb.stateCache.OpenTrie(root); if err != nil`
OpenFails(root) == root \in missing

\* stateCache.ContractCode(_, codeHash): the code stored under its hash
ContractCode(codeHash) == codeHash[2]

\* Go maps as functions
EmptyMap == <<>>
Put(m, k, v) == [x \in (DOMAIN m) \cup {k} |-> IF x = k THEN v ELSE m[x]]

\* the updated key left in the account maps
Delete_Nothing(m, k) == m

\* delete(creations, key), delete(deletions, key)
Delete(m, k) == [x \in (DOMAIN m) \ {k} |-> m[x]]

\* ------------------------------------------------------------ watch lists
\* the watch list not applied
isWatchedAddress_All(watchedAddresses, stateLeafKey) == TRUE

isWatchedAddress(watchedAddresses, stateLeafKey) ==
    \/ Cardinality(watchedAddresses) = 0
    \/ \E addr \in watchedAddresses : Keccak256(addr) = stateLeafKey

\* the list of watched storage keys not applied
isWatchedStorageKey_All(watchedKeys, storageLeafKey) == TRUE

isWatchedStorageKey(watchedKeys, storageLeafKey) ==
    \/ Cardinality(watchedKeys) = 0
    \/ \E hashKey \in watchedKeys : hashKey = storageLeafKey

\* ---------------------------------------------------------------- storage
\* the storage sink of the builder is storageNodeAppender, which never fails

StorageNode(ty, path, value, leafKey) ==
    [NodeType |-> ty, Path |-> path, NodeValue |-> value, LeafKey |-> leafKey]

\* the records one loop iteration of buildStorageNodesFromTrie or of
\* createdAndUpdatedStorage appends for the node n
StorageNodeRecords(n, watchedStorageKeys, intermediateNodes) ==
    LET node == TrieDBNode(n.Hash)
        ty   == CheckKeyType(node)
    IN  IF ty = Leaf
        THEN IF isWatchedStorageKey(watchedStorageKeys, LeafKeyOf(n.Path, node))
             THEN <<StorageNode(ty, n.Path, node, LeafKeyOf(n.Path, node))>>
             ELSE <<>>
        ELSE IF intermediateNodes THEN <<StorageNode(ty, n.Path, node, <<>>)>>
        ELSE <<>>

RECURSIVE buildStorageNodesFromTrie(_, _, _)
buildStorageNodesFromTrie(iter, watchedStorageKeys, intermediateNodes) ==
    IF Len(SkipNodes(iter)) = 0 THEN <<>>
    ELSE StorageNodeRecords(Head(SkipNodes(iter)), watchedStorageKeys, intermediateNodes)
         \o buildStorageNodesFromTrie(Tail(SkipNodes(iter)), watchedStorageKeys,
                                      intermediateNodes)

\* [nodes, err]: all the storage nodes of a created account
buildStorageNodesEventual(sr, watchedStorageKeys, intermediateNodes) ==
    IF sr = emptyContractRoot THEN [nodes |-> <<>>, err |-> nil]
    ELSE IF sr \in missing THEN [nodes |-> <<>>, err |-> MissingNode]
    ELSE [nodes |-> buildStorageNodesFromTrie(NodeIterator(OpenTrie(sr)),
                        watchedStorageKeys, intermediateNodes),
          err |-> nil]

RECURSIVE createdAndUpdatedStorage(_, _, _)
\* [nodes, paths]: the records of the B side and the hex paths it walked
createdAndUpdatedStorage(iter, watchedKeys, intermediateNodes) ==
    IF Len(SkipNodes(iter)) = 0 THEN [nodes |-> <<>>, paths |-> {}]
    ELSE LET n    == Head(SkipNodes(iter))
             rest == createdAndUpdatedStorage(Tail(SkipNodes(iter)), watchedKeys,
                                              intermediateNodes)
         IN  [nodes |-> StorageNodeRecords(n, watchedKeys, intermediateNodes)
                        \o rest.nodes,
              paths |-> {Bytes2Hex(n.Path)} \cup rest.paths]

\* no path taken for recorded
InDiffPathsAtB_Never(paths, nodePath) == FALSE

\* `if _, ok := diffPathsAtB[common.Bytes2Hex(node.Path)]; ok`: the path is
\* one the pass over B recorded
InDiffPathsAtB(paths, nodePath) == Bytes2Hex(nodePath) \in paths

RECURSIVE deletedOrUpdatedStorage(_, _, _, _)
deletedOrUpdatedStorage(iter, paths, watchedKeys, intermediateNodes) ==
    IF Len(SkipNodes(iter)) = 0 THEN <<>>
    ELSE LET n    == Head(SkipNodes(iter))
             node == TrieDBNode(n.Hash)
             ty   == CheckKeyType(node)
             emit == IF ty = Leaf
                     THEN isWatchedStorageKey(watchedKeys, LeafKeyOf(n.Path, node))
                     ELSE intermediateNodes
         IN  (IF ~InDiffPathsAtB(paths, n.Path) /\ emit
              THEN <<StorageNode(Removed, n.Path, <<>>, <<>>)>>
              ELSE <<>>)
             \o deletedOrUpdatedStorage(Tail(SkipNodes(iter)), paths, watchedKeys,
                                        intermediateNodes)

\* the whole storage at newSR taken for the difference
buildStorageNodesIncremental_Eventual(oldSR, newSR, watchedStorageKeys, intermediateNodes) ==
    buildStorageNodesEventual(newSR, watchedStorageKeys, intermediateNodes)

\* [nodes, err]: the storage nodes in a different state at newSR than at oldSR
buildStorageNodesIncremental(oldSR, newSR, watchedStorageKeys, intermediateNodes) ==
    IF newSR = oldSR THEN [nodes |-> <<>>, err |-> nil]
    ELSE IF oldSR \in missing \/ newSR \in missing
    THEN [nodes |-> <<>>, err |-> MissingNode]
    ELSE LET a == NodeIterator(OpenTrie(oldSR))
             b == NodeIterator(OpenTrie(newSR))
             atB == createdAndUpdatedStorage(NewDifferenceIterator(a, b),
                        watchedStorageKeys, intermediateNodes)
         IN  [nodes |-> atB.nodes
                        \o deletedOrUpdatedStorage(NewDifferenceIterator(b, a), atB.paths,
                               watchedStorageKeys, intermediateNodes),
              err |-> nil]

\* ------------------------------------------------------------- state diff
\* the first pass walking all of B instead of what B has and A has not
IteratorAtB_Undiffed(a, b) == b

\* the iterator of the passes over B: `it, _ := trie.NewDifferenceIterator(a, b)`
IteratorAtB(a, b) == NewDifferenceIterator(a, b)

\* the second pass walking all of A instead of what A has and B has not
IteratorAtA_Undiffed(a, b) == a

\* the iterator of the pass over A: `it, _ := trie.NewDifferenceIterator(b, a)`
IteratorAtA(a, b) == NewDifferenceIterator(b, a)

\* a record built without the value of its node
StateNode_NoValue(ty, path, value, leafKey, storageNodes) ==
    [NodeType |-> ty, Path |-> path, NodeValue |-> <<>>, LeafKey |-> leafKey,
     StorageNodes |-> storageNodes]

StateNode(ty, path, value, leafKey, storageNodes) ==
    [NodeType |-> ty, Path |-> path, NodeValue |-> value, LeafKey |-> leafKey,
     StorageNodes |-> storageNodes]

accountWrapper(ty, path, value, leafKey, account) ==
    [NodeType |-> ty, Path |-> path, NodeValue |-> value, LeafKey |-> leafKey,
     Account |-> account]

\* the accountWrapper a pass records for the leaf node n
WrapperOf(n) ==
    LET node == TrieDBNode(n.Hash)
    IN  accountWrapper(CheckKeyType(node), n.Path, node, LeafKeyOf(n.Path, node), node[2])

RECURSIVE SortSet(_)
\* the members of a set of hex strings in ascending order
SortSet(S) ==
    IF S = {} THEN <<>>
    ELSE LET m == CHOOSE x \in S : \A y \in S \ {x} : SeqLess(x, y)
         IN  <<m>> \o SortSet(S \ {m})

\* sortKeys: the keys of an AccountMap, sorted
sortKeys(data) == SortSet(DOMAIN data)

\* findIntersection: the keys two sorted key lists share, sorted
findIntersection(a, b) == SortSet(Range(a) \cap Range(b))

\* the watch list not looked at when the branch is taken
WithIntermediateStateNodes_Unwatched == params.IntermediateStateNodes

\* the branch WriteStateDiffObject takes
WithIntermediateStateNodes ==
    ~(~params.IntermediateStateNodes \/ Cardinality(params.WatchedAddresses) > 0)

\* the list built so far handed back with the error
Return_Partial(codes, err) ==
    /\ pc' = "done"
    /\ retCodes' = codeAndCodeHashes
    /\ retErr' = err

\* the wrapper's return: every error of a pass ends the invocation
Return(codes, err) ==
    /\ pc' = "done"
    /\ retCodes' = codes
    /\ retErr' = err

\* an error that is not looked at
Failed_Ignored(err) == FALSE

\* `if err := output(...); err != nil`: the test that ends a pass
Failed(err) == err # nil

\* what the sink of the call can answer: stateNodeAppender, the sink
\* BuildStateDiffObject passes, returns nil; a sink of the caller of
\* WriteStateDiffObject returns nil or an error
SinkAnswers == IF caller = "BuildStateDiffObject" THEN {nil} ELSE {nil, SinkError}

\* one call of the sink: the record is passed, and the sink answers e
Sink(node, e) ==
    /\ output' = Append(output, node)
    /\ outputPass' = Append(outputPass, pc)
    /\ answers' = Append(answers, e)

NoSink == UNCHANGED <<output, outputPass, answers>>

\* ---------------------------------------------------- the mock service
\* the subscribers of the MockStateDiffService
IDs == {"id1", "id2"}

\* Loop between two blocks: at its select, with no block taken
AtSelect == [pc |-> "select", currentBlock |-> nil, parentBlock |-> nil,
             payload |-> nil, ranged |-> {}]

\* the API goroutine between two calls, with what its last call returned
Idle(err) == [pc |-> "idle", id |-> "", sub |-> nil, err |-> err]

\* a MockStateDiffService with its channels made, no subscription, nothing
\* sent on a channel yet, and Loop running as Start left it
MockStateDiffService ==
    /\ Mutex = ""
    /\ Subscriptions = EmptyMap
    /\ PayloadChans = [id \in IDs |-> <<>>]
    /\ QuitChans = [id \in IDs |-> <<>>]
    /\ QuitChan = "open"
    /\ BlockChan = <<>>
    /\ ParentBlockChan = <<>>
    /\ loop = AtSelect
    /\ client = Idle(nil)
    /\ sent = [blocks |-> 0, parents |-> 0]

\* a call of a method has been entered: nothing walked, passed or returned
Entered ==
    /\ pc = caller
    /\ it = <<>>
    /\ diffAccountsAtB = EmptyMap
    /\ diffPathsAtB = {}
    /\ diffAccountsAtA = EmptyMap
    /\ updatedKeys = <<>>
    /\ ranged = {}
    /\ codeAndCodeHashes = <<>>
    /\ output = <<>>
    /\ outputPass = <<>>
    /\ answers = <<>>
    /\ retCodes = <<>>
    /\ retErr = nil
    /\ stateNodes = <<>>
    /\ retObject = EmptyStateObject

Init ==
    /\ OldStateRoot \in {Keccak256Hash(t) : t \in StateTries}
    /\ NewStateRoot \in {Keccak256Hash(t) : t \in StateTries}
    /\ params \in ParamsSet
    /\ missing \in {{}, {OldStateRoot}, {NewStateRoot}}
    /\ caller = "WriteStateDiffObject"
    /\ previous = <<>>
    /\ Entered
    /\ MockStateDiffService

\* WriteStateDiffObject up to the first pass: both tries are opened, then the
\* first difference iterator is made
WriteStateDiffObject ==
    /\ pc \in {"WriteStateDiffObject", "BuildStateDiffObject"}
    /\ IF OpenFails(OldStateRoot)
       THEN /\ Return(<<>>, Errorf("error creating trie for oldStateRoot", MissingNode))
            /\ UNCHANGED it
       ELSE IF OpenFails(NewStateRoot)
       THEN /\ Return(<<>>, Errorf("error creating trie for newStateRoot", MissingNode))
            /\ UNCHANGED it
       ELSE /\ pc' = "createdAndUpdatedState"
            /\ it' = IteratorAtB(NodeIterator(OpenTrie(OldStateRoot)),
                                 NodeIterator(OpenTrie(NewStateRoot)))
            /\ UNCHANGED <<retCodes, retErr>>
    /\ NoSink
    /\ UNCHANGED <<service, inputs, calls, diffAccountsAtB, diffPathsAtB, diffAccountsAtA,
                   updatedKeys, ranged, codeAndCodeHashes>>

\* one iteration of the loop of createdAndUpdatedState
createdAndUpdatedState ==
    /\ pc = "createdAndUpdatedState"
    /\ ~WithIntermediateStateNodes
    /\ Len(SkipNodes(it)) > 0
    /\ LET n    == Head(SkipNodes(it))
           node == TrieDBNode(n.Hash)
           ty   == CheckKeyType(node)
       IN  /\ diffAccountsAtB' =
                 IF ty = Leaf /\ isWatchedAddress(params.WatchedAddresses,
                                                  LeafKeyOf(n.Path, node))
                 THEN Put(diffAccountsAtB, Bytes2Hex(LeafKeyOf(n.Path, node)), WrapperOf(n))
                 ELSE diffAccountsAtB
           /\ diffPathsAtB' = diffPathsAtB \cup {Bytes2Hex(n.Path)}
    /\ it' = Tail(SkipNodes(it))
    /\ NoSink
    /\ UNCHANGED <<service, inputs, calls, pc, diffAccountsAtA, updatedKeys, ranged,
                   codeAndCodeHashes, retCodes, retErr>>

\* one iteration of the loop of createdAndUpdatedStateWithIntermediateNodes
createdAndUpdatedStateWithIntermediateNodes ==
    /\ pc = "createdAndUpdatedState"
    /\ WithIntermediateStateNodes
    /\ Len(SkipNodes(it)) > 0
    /\ LET n    == Head(SkipNodes(it))
           node == TrieDBNode(n.Hash)
           ty   == CheckKeyType(node)
       IN  IF ty = Leaf
           THEN /\ diffAccountsAtB' =
                      Put(diffAccountsAtB, Bytes2Hex(LeafKeyOf(n.Path, node)), WrapperOf(n))
                /\ diffPathsAtB' = diffPathsAtB \cup {Bytes2Hex(n.Path)}
                /\ it' = Tail(SkipNodes(it))
                /\ NoSink
                /\ UNCHANGED <<pc, retCodes, retErr>>
           ELSE \E e \in SinkAnswers :
                /\ Sink(StateNode(ty, n.Path, node, <<>>, <<>>), e)
                /\ IF Failed(e)
                   THEN /\ Return(<<>>, Errorf("error collecting createdAndUpdatedNodes", e))
                        /\ UNCHANGED <<diffPathsAtB, it>>
                   ELSE /\ diffPathsAtB' = diffPathsAtB \cup {Bytes2Hex(n.Path)}
                        /\ it' = Tail(SkipNodes(it))
                        /\ UNCHANGED <<pc, retCodes, retErr>>
                /\ UNCHANGED diffAccountsAtB
    /\ UNCHANGED <<service, inputs, calls, diffAccountsAtA, updatedKeys, ranged, codeAndCodeHashes>>

\* the first pass returns its maps, and the mirrored iterator is made
createdAndUpdatedStateReturn ==
    /\ pc = "createdAndUpdatedState"
    /\ Len(SkipNodes(it)) = 0
    /\ pc' = "deletedOrUpdatedState"
    /\ it' = IteratorAtA(NodeIterator(OpenTrie(OldStateRoot)),
                         NodeIterator(OpenTrie(NewStateRoot)))
    /\ NoSink
    /\ UNCHANGED <<service, inputs, calls, diffAccountsAtB, diffPathsAtB, diffAccountsAtA,
                   updatedKeys, ranged, codeAndCodeHashes, retCodes, retErr>>

\* the test on diffPathsAtB taken the wrong way round
EmitsRemoved_Inverted(nodePath) == Bytes2Hex(nodePath) \in diffPathsAtB

\* the test on diffPathsAtB left out
EmitsRemoved_Always(nodePath) == TRUE

\* TRUE when deletedOrUpdatedState emits a Removed record for a node at nodePath
EmitsRemoved(nodePath) == Bytes2Hex(nodePath) \notin diffPathsAtB

\* one iteration of the loop of deletedOrUpdatedState
deletedOrUpdatedState ==
    /\ pc = "deletedOrUpdatedState"
    /\ Len(SkipNodes(it)) > 0
    /\ LET n    == Head(SkipNodes(it))
           node == TrieDBNode(n.Hash)
           ty   == CheckKeyType(node)
           record ==
               /\ diffAccountsAtA' =
                     IF ty = Leaf
                     THEN Put(diffAccountsAtA, Bytes2Hex(LeafKeyOf(n.Path, node)),
                              WrapperOf(n))
                     ELSE diffAccountsAtA
               /\ it' = Tail(SkipNodes(it))
               /\ UNCHANGED <<pc, retCodes, retErr>>
       IN  IF EmitsRemoved(n.Path)
           THEN \E e \in SinkAnswers :
                /\ Sink(StateNode(Removed, n.Path, <<>>, <<>>, <<>>), e)
                /\ IF Failed(e)
                   THEN /\ Return(<<>>, Errorf("error collecting deletedOrUpdatedNodes", e))
                        /\ UNCHANGED <<diffAccountsAtA, it>>
                   ELSE record
           ELSE /\ NoSink
                /\ record
    /\ UNCHANGED <<service, inputs, calls, diffAccountsAtB, diffPathsAtB, updatedKeys, ranged,
                   codeAndCodeHashes>>

\* the second pass returns its map; the key lists are sorted and intersected
deletedOrUpdatedStateReturn ==
    /\ pc = "deletedOrUpdatedState"
    /\ Len(SkipNodes(it)) = 0
    /\ pc' = "buildAccountUpdates"
    /\ it' = <<>>
    /\ updatedKeys' = findIntersection(sortKeys(diffAccountsAtB), sortKeys(diffAccountsAtA))
    /\ NoSink
    /\ UNCHANGED <<service, inputs, calls, diffAccountsAtB, diffPathsAtB, diffAccountsAtA, ranged,
                   codeAndCodeHashes, retCodes, retErr>>

\* one iteration of the loop of buildAccountUpdates
buildAccountUpdates ==
    /\ pc = "buildAccountUpdates"
    /\ Len(updatedKeys) > 0
    /\ LET key        == Head(updatedKeys)
           createdAcc == diffAccountsAtB[key]
           deletedAcc == diffAccountsAtA[key]
           storage    == buildStorageNodesIncremental(
                             deletedAcc.Account.Root, createdAcc.Account.Root,
                             params.WatchedStorageSlots, params.IntermediateStorageNodes)
       IN  IF Failed(storage.err)
           THEN /\ Return(<<>>, Errorf("error building diff for updated accounts",
                            Errorf("failed building incremental storage diffs", storage.err)))
                /\ NoSink
                /\ UNCHANGED <<diffAccountsAtB, diffAccountsAtA, updatedKeys>>
           ELSE \E e \in SinkAnswers :
                /\ Sink(StateNode(createdAcc.NodeType, createdAcc.Path, createdAcc.NodeValue,
                                  createdAcc.LeafKey, storage.nodes), e)
                /\ IF Failed(e)
                   THEN /\ Return(<<>>, Errorf("error building diff for updated accounts", e))
                        /\ UNCHANGED <<diffAccountsAtB, diffAccountsAtA, updatedKeys>>
                   ELSE /\ diffAccountsAtB' = Delete(diffAccountsAtB, key)
                        /\ diffAccountsAtA' = Delete(diffAccountsAtA, key)
                        /\ updatedKeys' = Tail(updatedKeys)
                        /\ UNCHANGED <<pc, retCodes, retErr>>
    /\ UNCHANGED <<service, inputs, calls, it, diffPathsAtB, ranged, codeAndCodeHashes>>

\* buildAccountUpdates returns nil, and buildAccountCreations starts its list
buildAccountUpdatesReturn ==
    /\ pc = "buildAccountUpdates"
    /\ Len(updatedKeys) = 0
    /\ pc' = "buildAccountCreations"
    /\ codeAndCodeHashes' = <<>>
    /\ ranged' = {}
    /\ NoSink
    /\ UNCHANGED <<service, inputs, calls, it, diffAccountsAtB, diffPathsAtB, diffAccountsAtA,
                   updatedKeys, retCodes, retErr>>

\* the keys the range loop over the accounts map may yield next: Go ranges
\* over a map in no fixed order, each key once
RangeNext(accounts) == (DOMAIN accounts) \ ranged

\* no account taken for a contract
IsContract_Never(account) == FALSE

\* TRUE for the accounts buildAccountCreations treats as contracts
IsContract(account) == account.CodeHash # nullCodeHash

\* the pair listed without the code
CodeAndCodeHash_HashOnly(hash, code) == [Hash |-> hash, Code |-> EmptyCode]

\* CodeAndCodeHash{Hash: codeHash, Code: code}
CodeAndCodeHash(hash, code) == [Hash |-> hash, Code |-> code]

\* one iteration of the loop of buildAccountCreations
buildAccountCreations ==
    /\ pc = "buildAccountCreations"
    /\ \E key \in RangeNext(diffAccountsAtB) :
        LET val     == diffAccountsAtB[key]
            storage == buildStorageNodesEventual(val.Account.Root,
                           params.WatchedStorageSlots, params.IntermediateStorageNodes)
            emit(storageNodes) ==
                \E e \in SinkAnswers :
                    /\ Sink(StateNode(val.NodeType, val.Path, val.NodeValue, val.LeafKey,
                                      storageNodes), e)
                    /\ IF Failed(e)
                       THEN /\ Return(<<>>, Errorf("error building diff for created accounts", e))
                            /\ UNCHANGED ranged
                       ELSE /\ ranged' = ranged \cup {key}
                            /\ UNCHANGED <<pc, retCodes, retErr>>
        IN  IF IsContract(val.Account)
            THEN IF Failed(storage.err)
                 THEN /\ Return(<<>>, Errorf("error building diff for created accounts",
                                  Errorf("failed building eventual storage diffs", storage.err)))
                      /\ NoSink
                      /\ UNCHANGED <<ranged, codeAndCodeHashes>>
                 ELSE \E codeErr \in {nil, MissingCode} :
                      IF Failed(codeErr)
                      THEN /\ Return(<<>>, Errorf("error building diff for created accounts",
                                       Errorf("failed to retrieve code for codehash", codeErr)))
                           /\ NoSink
                           /\ UNCHANGED <<ranged, codeAndCodeHashes>>
                      ELSE /\ codeAndCodeHashes' = Append(codeAndCodeHashes,
                                  CodeAndCodeHash(val.Account.CodeHash,
                                                  ContractCode(val.Account.CodeHash)))
                           /\ emit(storage.nodes)
            ELSE /\ emit(<<>>)
                 /\ UNCHANGED codeAndCodeHashes
    /\ UNCHANGED <<service, inputs, calls, it, diffAccountsAtB, diffPathsAtB, diffAccountsAtA, updatedKeys>>

\* buildAccountCreations returns its list, and so does WriteStateDiffObject
buildAccountCreationsReturn ==
    /\ pc = "buildAccountCreations"
    /\ RangeNext(diffAccountsAtB) = {}
    /\ Return(codeAndCodeHashes, nil)
    /\ NoSink
    /\ UNCHANGED <<service, inputs, calls, it, diffAccountsAtB, diffPathsAtB, diffAccountsAtA,
                   updatedKeys, ranged, codeAndCodeHashes>>

Next ==
    \/ WriteStateDiffObject
    \/ createdAndUpdatedState
    \/ createdAndUpdatedStateWithIntermediateNodes
    \/ createdAndUpdatedStateReturn
    \/ deletedOrUpdatedState
    \/ deletedOrUpdatedStateReturn
    \/ buildAccountUpdates
    \/ buildAccountUpdatesReturn
    \/ buildAccountCreations
    \/ buildAccountCreationsReturn

Spec == Init /\ [][Next]_vars

\* the same invocation over the world of the storage tries
InitStorage ==
    /\ OldStateRoot \in {Keccak256Hash(t) : t \in StorageStateTries}
    /\ NewStateRoot \in {Keccak256Hash(t) : t \in StorageStateTries}
    /\ params \in StorageParamsSet
    /\ missing = {}
    /\ caller = "WriteStateDiffObject"
    /\ previous = <<>>
    /\ Entered
    /\ MockStateDiffService

SpecStorage == InitStorage /\ [][Next]_vars

\* ------------------------------------------- the methods that return objects
\* the nodes collected before the failure handed back with the error
ReturnObject_Partial(nodes, codes, err) == StateObject(nodes, codes)

\* `if err != nil { return StateObject{}, err }`, else the object
ReturnObject(nodes, codes, err) ==
    IF Failed(err) THEN EmptyStateObject ELSE StateObject(nodes, codes)

\* BuildStateDiffObject after WriteStateDiffObject has returned: its sink has
\* appended every record it was passed to the slice of the object
BuildStateDiffObject ==
    /\ pc = "done"
    /\ caller = "BuildStateDiffObject"
    /\ pc' = "returned"
    /\ retObject' = ReturnObject(output, retCodes, retErr)
    /\ NoSink
    /\ UNCHANGED <<service, inputs, caller, stateNodes, previous, it, diffAccountsAtB,
                   diffPathsAtB, diffAccountsAtA, updatedKeys, ranged,
                   codeAndCodeHashes, retCodes, retErr>>

\* BuildStateTrieObject up to the loop of buildStateTrie; the block is the
\* one with the root NewStateRoot
BuildStateTrieObject ==
    /\ pc = "BuildStateTrieObject"
    /\ IF OpenFails(NewStateRoot)
       THEN /\ pc' = "returned"
            /\ retErr' = Errorf("error creating trie for block", MissingNode)
            /\ retObject' = ReturnObject(<<>>, <<>>, retErr')
            /\ UNCHANGED it
       ELSE /\ pc' = "buildStateTrie"
            /\ it' = NodeIterator(OpenTrie(NewStateRoot))
            /\ UNCHANGED <<retErr, retObject>>
    /\ NoSink
    /\ UNCHANGED <<service, inputs, caller, stateNodes, previous, diffAccountsAtB,
                   diffPathsAtB, diffAccountsAtA, updatedKeys, ranged,
                   codeAndCodeHashes, retCodes>>

\* the storage walk without its intermediate nodes
TrieStorageNodes_LeavesOnly(account) ==
    buildStorageNodesEventual(account.Root, {}, FALSE)

\* sdb.buildStorageNodesEventual(account.Root, nil, true, ...)
TrieStorageNodes(account) == buildStorageNodesEventual(account.Root, {}, TRUE)

\* one iteration of the loop of buildStateTrie
buildStateTrie ==
    /\ pc = "buildStateTrie"
    /\ Len(SkipNodes(it)) > 0
    /\ LET n       == Head(SkipNodes(it))
           node    == TrieDBNode(n.Hash)
           ty      == CheckKeyType(node)
           account == node[2]
           storage == TrieStorageNodes(account)
           fail(err) ==
               /\ pc' = "returned"
               /\ retErr' = Errorf("error collecting state nodes for block", err)
               /\ retObject' = ReturnObject(<<>>, <<>>, retErr')
               /\ UNCHANGED <<it, stateNodes, codeAndCodeHashes>>
           append(storageNodes) ==
               /\ stateNodes' = Append(stateNodes,
                      StateNode(ty, n.Path, node,
                                IF ty = Leaf THEN LeafKeyOf(n.Path, node) ELSE <<>>,
                                storageNodes))
               /\ it' = Tail(SkipNodes(it))
               /\ UNCHANGED <<pc, retErr, retObject>>
       IN  IF ty = Leaf /\ IsContract(account)
           THEN IF Failed(storage.err)
                THEN fail(Errorf("failed building eventual storage diffs", storage.err))
                ELSE \E codeErr \in {nil, MissingCode} :
                     IF Failed(codeErr)
                     THEN fail(Errorf("failed to retrieve code for codehash", codeErr))
                     ELSE /\ codeAndCodeHashes' = Append(codeAndCodeHashes,
                                 CodeAndCodeHash(account.CodeHash,
                                                 ContractCode(account.CodeHash)))
                          /\ append(storage.nodes)
           ELSE /\ append(<<>>)
                /\ UNCHANGED codeAndCodeHashes
    /\ NoSink
    /\ UNCHANGED <<service, inputs, caller, previous, diffAccountsAtB, diffPathsAtB,
                   diffAccountsAtA, updatedKeys, ranged, retCodes>>

\* buildStateTrie returns its slices, and BuildStateTrieObject the object
BuildStateTrieObjectReturn ==
    /\ pc = "buildStateTrie"
    /\ Len(SkipNodes(it)) = 0
    /\ pc' = "returned"
    /\ retErr' = nil
    /\ retObject' = ReturnObject(stateNodes, codeAndCodeHashes, nil)
    /\ NoSink
    /\ UNCHANGED <<service, inputs, caller, stateNodes, previous, it, diffAccountsAtB,
                   diffPathsAtB, diffAccountsAtA, updatedKeys, ranged,
                   codeAndCodeHashes, retCodes>>

\* TRUE when the call of the method has returned
Returned == pc = (IF caller = "WriteStateDiffObject" THEN "done" ELSE "returned")

\* what a call leaves for the one after it to be set against
Outcome ==
    [caller |-> caller, output |-> output, retCodes |-> retCodes,
     retErr |-> retErr, retObject |-> retObject]

\* the locals of a call that is entered after another one
EnteredAgain ==
    /\ pc' = caller'
    /\ it' = <<>>
    /\ diffAccountsAtB' = EmptyMap
    /\ diffPathsAtB' = {}
    /\ diffAccountsAtA' = EmptyMap
    /\ updatedKeys' = <<>>
    /\ ranged' = {}
    /\ codeAndCodeHashes' = <<>>
    /\ output' = <<>>
    /\ outputPass' = <<>>
    /\ answers' = <<>>
    /\ retCodes' = <<>>
    /\ retErr' = nil
    /\ stateNodes' = <<>>
    /\ retObject' = EmptyStateObject

\* the owner of the Builder, after a diff from OldStateRoot to NewStateRoot,
\* asks for the whole state of the block with the root NewStateRoot
CallBuildStateTrieObject ==
    /\ Returned
    /\ previous = <<>>
    /\ previous' = <<Outcome>>
    /\ caller' = "BuildStateTrieObject"
    /\ EnteredAgain
    /\ UNCHANGED <<service, inputs>>

\* the owner of the Builder, after a diff from OldStateRoot to NewStateRoot,
\* asks for the diff the other way round, with the same params
CallWriteStateDiffObjectSwapped ==
    /\ Returned
    /\ previous = <<>>
    /\ previous' = <<Outcome>>
    /\ OldStateRoot' = NewStateRoot
    /\ NewStateRoot' = OldStateRoot
    /\ UNCHANGED <<service, caller, params, missing>>
    /\ EnteredAgain

\* the world of the methods that return objects: the old state holds no
\* account at the first address
ObjectOldTries == {t \in StorageStateTries : KeyOf("addrA") \notin KeysOf(t)}

FullParams ==
    [IntermediateStateNodes |-> TRUE, WatchedAddresses |-> {},
     IntermediateStorageNodes |-> TRUE, WatchedStorageSlots |-> {}]

ObjectParamsSet ==
    {FullParams,
     [FullParams EXCEPT !.IntermediateStateNodes = FALSE],
     [FullParams EXCEPT !.IntermediateStorageNodes = FALSE,
                        !.WatchedStorageSlots = {Slot1}]}

InitObject ==
    /\ OldStateRoot \in {Keccak256Hash(t) : t \in ObjectOldTries}
    /\ NewStateRoot \in {Keccak256Hash(t) : t \in StorageStateTries}
    /\ params \in ObjectParamsSet
    /\ missing \in {{}, {NewStateRoot}, {Keccak256Hash(Storage1)}}
    /\ caller \in {"BuildStateDiffObject", "WriteStateDiffObject"}
    /\ previous = <<>>
    /\ Entered
    /\ MockStateDiffService

NextObject ==
    \/ Next
    \/ BuildStateDiffObject
    \/ CallBuildStateTrieObject
    \/ BuildStateTrieObject
    \/ buildStateTrie
    \/ BuildStateTrieObjectReturn

SpecObject == InitObject /\ [][NextObject]_vars

\* the world of the diffs taken both ways: plain accounts
PlainStateTries ==
    UNION {{ {<<KeyOf(a), f[a]>> : a \in S} : f \in [S -> {Account1, Account2}]}
           : S \in {X \in SUBSET Addresses : Cardinality(X) <= MaxAccounts}}

SwappedParamsSet ==
    {FullParams,
     [FullParams EXCEPT !.IntermediateStateNodes = FALSE],
     [FullParams EXCEPT !.WatchedAddresses = {"addrA"}]}

InitSwapped ==
    /\ OldStateRoot \in {Keccak256Hash(t) : t \in PlainStateTries}
    /\ NewStateRoot \in {Keccak256Hash(t) : t \in PlainStateTries}
    /\ params \in SwappedParamsSet
    /\ missing = {}
    /\ caller = "WriteStateDiffObject"
    /\ previous = <<>>
    /\ Entered
    /\ MockStateDiffService

NextSwapped ==
    \/ Next
    \/ CallWriteStateDiffObjectSwapped

SpecSwapped == InitSwapped /\ [][NextSwapped]_vars

\* --------------------------------------------------- MockStateDiffService
\* statediff/testhelpers/mocks/api.go: the goroutine of Loop, one goroutine
\* that calls Subscribe, Unsubscribe and Stop, the senders of the blocks and
\* the subscribers that take payloads off their channels.  A channel of a
\* subscriber is known by its capacity; capacity 0 stands for a channel
\* without a buffer on which no receiver waits.  The blocks come over
\* channels without a buffer: a sender waits until Loop takes its block.

\* the capacities of the channels a subscriber makes
ChanCaps == {0, 1}

\* the blocks: a pointer to the block of a number, nil for none
Block(number) == <<number>>

\* Subscription{PayloadChan: sub, QuitChan: quitChan}
Subscription(payloadChan, quitChan) == [PayloadChan |-> payloadChan, QuitChan |-> quitChan]

\* the error of a Builder that cannot build the diff of a block
BuildError == <<"state diff failure">>

\* the payload processStateDiff makes for a block
Payload(block) == <<"payload">> \o block

\* TRUE when a send on the channel goes ahead at once
Ready(ch, capacity) == Len(ch) < capacity

\* the payload put on the channel whether there is room or not
TrySend_Forced(ch, capacity, v) == Append(ch, v)

\* `select { case ch <- v: default: }`: what the channel holds afterwards
TrySend(ch, capacity, v) == IF Ready(ch, capacity) THEN Append(ch, v) ELSE ch

\* the error Unsubscribe returns for an id that has no subscription
NoSubscription(id) ==
    <<"cannot unsubscribe; subscription for id %s does not exist", id>>

\* `case block := <-sds.BlockChan`: Loop takes a block
LoopBlockChan ==
    /\ loop.pc = "select"
    /\ Len(BlockChan) > 0
    /\ loop' = [loop EXCEPT !.pc = "parentBlock", !.currentBlock = Head(BlockChan)]
    /\ BlockChan' = Tail(BlockChan)
    /\ UNCHANGED <<builder, Mutex, Subscriptions, PayloadChans, QuitChans, QuitChan,
                   ParentBlockChan, client, sent>>

\* `parentBlock := <-sds.ParentBlockChan`: Loop waits for the parent block,
\* and goes back to its select if it is nil.  types.Block is not among these
\* sources: parentBlock.Hash(), called before the test for nil, is taken to
\* return for a nil block, as the log line that follows expects.
LoopParentBlockChan ==
    /\ loop.pc = "parentBlock"
    /\ Len(ParentBlockChan) > 0
    /\ loop' = IF Head(ParentBlockChan) = nil
               THEN AtSelect
               ELSE [loop EXCEPT !.pc = "processStateDiff",
                                 !.parentBlock = Head(ParentBlockChan)]
    /\ ParentBlockChan' = Tail(ParentBlockChan)
    /\ UNCHANGED <<builder, Mutex, Subscriptions, PayloadChans, QuitChans, QuitChan,
                   BlockChan, client, sent>>

\* processStateDiff: the Builder of the service builds the diff, or fails,
\* and then Loop goes back to its select
processStateDiff ==
    /\ loop.pc = "processStateDiff"
    /\ \E err \in {nil, BuildError} :
          loop' = IF err # nil
                  THEN AtSelect
                  ELSE [loop EXCEPT !.pc = "send", !.payload = Payload(loop.currentBlock)]
    /\ UNCHANGED <<builder, Mutex, Subscriptions, PayloadChans, QuitChans, QuitChan,
                   BlockChan, ParentBlockChan, client, sent>>

\* send: sds.Lock()
sendLock ==
    /\ loop.pc = "send"
    /\ Mutex = ""
    /\ Mutex' = "send"
    /\ loop' = [loop EXCEPT !.pc = "sendRange", !.ranged = {}]
    /\ UNCHANGED <<builder, Subscriptions, PayloadChans, QuitChans, QuitChan,
                   BlockChan, ParentBlockChan, client, sent>>

\* send: one iteration of `for id, sub := range sds.Subscriptions`
send ==
    /\ loop.pc = "sendRange"
    /\ \E id \in (DOMAIN Subscriptions) \ loop.ranged :
          /\ PayloadChans' = [PayloadChans EXCEPT
                 ![id] = TrySend(@, Subscriptions[id].PayloadChan, loop.payload)]
          /\ loop' = [loop EXCEPT !.ranged = @ \cup {id}]
    /\ UNCHANGED <<builder, Mutex, Subscriptions, QuitChans, QuitChan,
                   BlockChan, ParentBlockChan, client, sent>>

\* send: sds.Unlock(), and Loop is back at its select
sendUnlock ==
    /\ loop.pc = "sendRange"
    /\ (DOMAIN Subscriptions) \ loop.ranged = {}
    /\ Mutex' = ""
    /\ loop' = AtSelect
    /\ UNCHANGED <<builder, Subscriptions, PayloadChans, QuitChans, QuitChan,
                   BlockChan, ParentBlockChan, client, sent>>

\* `case <-sds.QuitChan`: a receive on the closed channel goes ahead
LoopQuitChan ==
    /\ loop.pc = "select"
    /\ QuitChan = "closed"
    /\ loop' = [loop EXCEPT !.pc = "close"]
    /\ UNCHANGED <<builder, Mutex, Subscriptions, PayloadChans, QuitChans, QuitChan,
                   BlockChan, ParentBlockChan, client, sent>>

\* close: sds.Lock()
closeLock ==
    /\ loop.pc = "close"
    /\ Mutex = ""
    /\ Mutex' = "close"
    /\ loop' = [loop EXCEPT !.pc = "closeRange", !.ranged = {}]
    /\ UNCHANGED <<builder, Subscriptions, PayloadChans, QuitChans, QuitChan,
                   BlockChan, ParentBlockChan, client, sent>>

\* close: one iteration of its range: the subscription that can be told
\* to quit is told and deleted, another one is left
close ==
    /\ loop.pc = "closeRange"
    /\ \E id \in (DOMAIN Subscriptions) \ loop.ranged :
          /\ IF Ready(QuitChans[id], Subscriptions[id].QuitChan)
             THEN /\ QuitChans' = [QuitChans EXCEPT ![id] = Append(@, TRUE)]
                  /\ Subscriptions' = Delete(Subscriptions, id)
             ELSE UNCHANGED <<QuitChans, Subscriptions>>
          /\ loop' = [loop EXCEPT !.ranged = @ \cup {id}]
    /\ UNCHANGED <<builder, Mutex, PayloadChans, QuitChan,
                   BlockChan, ParentBlockChan, client, sent>>

\* close: sds.Unlock(), and Loop returns
closeUnlock ==
    /\ loop.pc = "closeRange"
    /\ (DOMAIN Subscriptions) \ loop.ranged = {}
    /\ Mutex' = ""
    /\ loop' = [AtSelect EXCEPT !.pc = "return"]
    /\ UNCHANGED <<builder, Subscriptions, PayloadChans, QuitChans, QuitChan,
                   BlockChan, ParentBlockChan, client, sent>>

\* a call of Subscribe(id, sub, quitChan) with channels the subscriber made
CallSubscribe ==
    /\ client.pc = "idle"
    /\ \E id \in IDs, payloadChan \in ChanCaps, quitChan \in ChanCaps :
          client' = [pc |-> "Subscribe", id |-> id,
                     sub |-> Subscription(payloadChan, quitChan), err |-> nil]
    /\ UNCHANGED <<builder, Mutex, Subscriptions, PayloadChans, QuitChans, QuitChan,
                   BlockChan, ParentBlockChan, loop, sent>>

\* Subscribe: sds.Lock()
SubscribeLock ==
    /\ client.pc = "Subscribe"
    /\ Mutex = ""
    /\ Mutex' = "Subscribe"
    /\ client' = [client EXCEPT !.pc = "SubscribeLocked"]
    /\ UNCHANGED <<builder, Subscriptions, PayloadChans, QuitChans, QuitChan,
                   BlockChan, ParentBlockChan, loop, sent>>

\* Subscribe: the subscription is put under the id, with its new channels,
\* and sds.Unlock()
Subscribe ==
    /\ client.pc = "SubscribeLocked"
    /\ Subscriptions' = Put(Subscriptions, client.id, client.sub)
    /\ PayloadChans' = [PayloadChans EXCEPT ![client.id] = <<>>]
    /\ QuitChans' = [QuitChans EXCEPT ![client.id] = <<>>]
    /\ Mutex' = ""
    /\ client' = Idle(nil)
    /\ UNCHANGED <<builder, QuitChan, BlockChan, ParentBlockChan, loop, sent>>

\* a call of Unsubscribe(id)
CallUnsubscribe ==
    /\ client.pc = "idle"
    /\ \E id \in IDs :
          client' = [pc |-> "Unsubscribe", id |-> id, sub |-> nil, err |-> nil]
    /\ UNCHANGED <<builder, Mutex, Subscriptions, PayloadChans, QuitChans, QuitChan,
                   BlockChan, ParentBlockChan, loop, sent>>

\* Unsubscribe: sds.Lock()
UnsubscribeLock ==
    /\ client.pc = "Unsubscribe"
    /\ Mutex = ""
    /\ Mutex' = "Unsubscribe"
    /\ client' = [client EXCEPT !.pc = "UnsubscribeLocked"]
    /\ UNCHANGED <<builder, Subscriptions, PayloadChans, QuitChans, QuitChan,
                   BlockChan, ParentBlockChan, loop, sent>>

\* Unsubscribe: for an id with no subscription the error is returned at
\* once; otherwise the subscription is deleted, and sds.Unlock()
Unsubscribe ==
    /\ client.pc = "UnsubscribeLocked"
    /\ IF client.id \notin DOMAIN Subscriptions
       THEN /\ client' = Idle(NoSubscription(client.id))
            /\ UNCHANGED <<Mutex, Subscriptions>>
       ELSE /\ Subscriptions' = Delete(Subscriptions, client.id)
            /\ Mutex' = ""
            /\ client' = Idle(nil)
    /\ UNCHANGED <<builder, PayloadChans, QuitChans, QuitChan,
                   BlockChan, ParentBlockChan, loop, sent>>

\* Stop: close(sds.QuitChan), once
Stop ==
    /\ client.pc = "idle"
    /\ QuitChan = "open"
    /\ QuitChan' = "closed"
    /\ UNCHANGED <<builder, Mutex, Subscriptions, PayloadChans, QuitChans,
                   BlockChan, ParentBlockChan, loop, client, sent>>

\* a sender comes to BlockChan with the next block
SendBlock ==
    /\ sent.blocks < MaxBlocks
    /\ Len(BlockChan) = 0
    /\ BlockChan' = <<Block(sent.blocks + 1)>>
    /\ sent' = [sent EXCEPT !.blocks = @ + 1]
    /\ UNCHANGED <<builder, Mutex, Subscriptions, PayloadChans, QuitChans, QuitChan,
                   ParentBlockChan, loop, client>>

\* a sender comes to ParentBlockChan with a parent block, or with nil
SendParentBlock ==
    /\ sent.parents < MaxBlocks
    /\ Len(ParentBlockChan) = 0
    /\ \E parentBlock \in {nil, Block(0)} : ParentBlockChan' = <<parentBlock>>
    /\ sent' = [sent EXCEPT !.parents = @ + 1]
    /\ UNCHANGED <<builder, Mutex, Subscriptions, PayloadChans, QuitChans, QuitChan,
                   BlockChan, loop, client>>

\* a subscriber takes a payload off its channel
ReceivePayload ==
    /\ \E id \in IDs :
          /\ Len(PayloadChans[id]) > 0
          /\ PayloadChans' = [PayloadChans EXCEPT ![id] = Tail(@)]
    /\ UNCHANGED <<builder, Mutex, Subscriptions, QuitChans, QuitChan,
                   BlockChan, ParentBlockChan, loop, client, sent>>

\* the service started, with no call of the Builder under way
InitService ==
    /\ OldStateRoot = Keccak256Hash({})
    /\ NewStateRoot = Keccak256Hash({})
    /\ params = FullParams
    /\ missing = {}
    /\ caller = "WriteStateDiffObject"
    /\ previous = <<>>
    /\ Entered
    /\ MockStateDiffService

\* the steps of the goroutine of Loop
Loop ==
    \/ LoopBlockChan
    \/ LoopParentBlockChan
    \/ processStateDiff
    \/ sendLock
    \/ send
    \/ sendUnlock
    \/ LoopQuitChan
    \/ closeLock
    \/ close
    \/ closeUnlock

\* the steps of a call of Subscribe or Unsubscribe once it is made
Calls ==
    \/ SubscribeLock
    \/ Subscribe
    \/ UnsubscribeLock
    \/ Unsubscribe

NextService ==
    \/ Loop
    \/ Calls
    \/ CallSubscribe
    \/ CallUnsubscribe
    \/ Stop
    \/ SendBlock
    \/ SendParentBlock
    \/ ReceivePayload

SpecService == InitService /\ [][NextService]_vars

\* the scheduler lets a goroutine that can take a step take one: Loop, and
\* a call that was made; nothing makes a sender, a subscriber or a caller come
FairSpecService ==
    /\ InitService
    /\ [][NextService]_vars
    /\ WF_vars(Loop)
    /\ WF_vars(Calls)

\* ---------------------------------------------------------------- claims
\* What the claims speak of, taken from the two tries and not from the maps
\* the passes build.

Done == pc = "done"
Succeeded == Done /\ retErr = nil
Opened == OldStateRoot \notin missing /\ NewStateRoot \notin missing
PastRemovals ==
    pc \in {"buildAccountUpdates", "buildAccountCreations"} \/ Succeeded

Prefixes(k) == {SubSeq(k, 1, n) : n \in 0..Len(k)}

KeysUnder(content, p) == {k \in KeysOf(content) : IsPrefix(p, k)}

\* TRUE when two keys of the content part ways right after the prefix q
PartsAt(content, q) ==
    \E k1, k2 \in KeysUnder(content, q) :
        Len(k1) > Len(q) /\ Len(k2) > Len(q) /\ k1[Len(q) + 1] # k2[Len(q) + 1]

\* the paths of the structural nodes of a trie: the root, the places where
\* keys part ways, and the places one nibble below those
NodePaths(content) ==
    {p \in UNION {Prefixes(k) : k \in KeysOf(content)} :
        \/ Len(p) = 0
        \/ PartsAt(content, p)
        \/ PartsAt(content, SubSeq(p, 1, Len(p) - 1))}

\* the account leaves of the state trie at a root: each key's leaf sits at
\* the node path below which no other key is left
StateLeaves(root) ==
    LET paths == NodePaths(OpenTrie(root))
    IN  {[Path |-> CHOOSE p \in paths : KeysUnder(OpenTrie(root), p) = {kv[1]},
          LeafKey |-> decodeNibbles(kv[1]),
          Account |-> kv[2]] : kv \in OpenTrie(root)}

LeafKeysAt(root) == {decodeNibbles(kv[1]) : kv \in OpenTrie(root)}

\* the paths of the structural nodes B has and A has not: the subtree at
\* that path is not the same in A
DifferencePaths(a, b) ==
    LET atA == NodePaths(a)
    IN  {p \in NodePaths(b) : ~(p \in atA /\ Below(a, p) = Below(b, p))}

DifferencePathsAtB == DifferencePaths(OpenTrie(OldStateRoot), OpenTrie(NewStateRoot))

Emitted(ty, path) ==
    \E i \in 1..Len(output) : output[i].NodeType = ty /\ output[i].Path = path

EmittedLeaf(leafKey) ==
    \E i \in 1..Len(output) : output[i].NodeType = Leaf /\ output[i].LeafKey = leafKey

SinkFailed == \E i \in 1..Len(answers) : answers[i] # nil

\* C1: with OldStateRoot = NewStateRoot = R, R the root of a trie the state
\* cache holds, the sink is never called, and the invocation returns an
\* empty code-and-hash list and no error, whatever the params.
C1_SameRootsEmitNothing ==
    (OldStateRoot = NewStateRoot)
        => /\ Len(output) = 0
           /\ (Done /\ Opened) => (retCodes = <<>> /\ retErr = nil)

C1_Witness ==
    /\ Done /\ Opened
    /\ OldStateRoot = NewStateRoot
    /\ Cardinality(OpenTrie(OldStateRoot)) = 2
    /\ retErr = nil

\* C2: once the Removed pass is over, every account leaf of A whose leaf key
\* has no leaf in B has a Removed record at its path in A, and no Leaf record
\* carries its key, also when B has another node at that path.
C2_DeletedAccountIsRemoved ==
    \A l \in StateLeaves(OldStateRoot) :
        (Opened /\ l.LeafKey \notin LeafKeysAt(NewStateRoot))
            => /\ ~EmittedLeaf(l.LeafKey)
               /\ PastRemovals => Emitted(Removed, l.Path)

\* the pairs <<leaf at A, leaf at B>> of one leaf key at two different paths
MovedLeaves ==
    {m \in StateLeaves(OldStateRoot) \X StateLeaves(NewStateRoot) :
        m[1].LeafKey = m[2].LeafKey /\ m[1].Path # m[2].Path}

C4_NoPathTwice ==
    \A i, j \in 1..Len(output) : (output[i].Path = output[j].Path) => i = j

C4_Witness ==
    /\ Succeeded
    /\ \E i, j, k \in 1..Len(output) :
          /\ outputPass[i] = "createdAndUpdatedState"
          /\ outputPass[j] = "deletedOrUpdatedState"
          /\ outputPass[k] = "buildAccountUpdates"
    /\ \E i \in 1..Len(output) : outputPass[i] = "buildAccountCreations"

\* C5: with a non-empty WatchedAddresses, every Leaf record passed to the sink
\* has the Keccak256 of a watched address as its leaf key, and no Extension
\* or Branch record is passed, whatever IntermediateStateNodes is.
C5_WatchedAddressesOnly ==
    (Cardinality(params.WatchedAddresses) > 0)
        => \A i \in 1..Len(output) :
              /\ output[i].NodeType \notin {Extension, Branch}
              /\ (output[i].NodeType = Leaf)
                    => \E a \in params.WatchedAddresses : output[i].LeafKey = Keccak256(a)

C5_Witness ==
    /\ Succeeded
    /\ Cardinality(params.WatchedAddresses) > 0
    /\ params.IntermediateStateNodes
    /\ \E i \in 1..Len(output) : output[i].NodeType = Leaf
    /\ \E l \in StateLeaves(NewStateRoot) :
          /\ ~isWatchedAddress(params.WatchedAddresses, l.LeafKey)
          /\ l.Path \in DifferencePathsAtB
    /\ \E p \in DifferencePathsAtB :
          \A l \in StateLeaves(NewStateRoot) : l.Path # p

\* the group of a record: intermediate node, Removed, Leaf of an account that
\* has a leaf in both tries (updated), Leaf of an account of B only (created)
Group(record) ==
    IF record.NodeType \in {Extension, Branch} THEN 1
    ELSE IF record.NodeType = Removed THEN 2
    ELSE IF record.LeafKey \in LeafKeysAt(OldStateRoot) THEN 3
    ELSE 4

\* C6: the sink sees the records in group order: Extension/Branch records,
\* then Removed records, then the Leafs of updated accounts, then the Leafs
\* of created accounts.
C6_GroupOrder ==
    \A i \in 1..Len(output) : \A j \in 1..(i - 1) : Group(output[j]) <= Group(output[i])

C6_Witness ==
    /\ Succeeded
    /\ {Group(output[i]) : i \in 1..Len(output)} = {1, 2, 3, 4}

\* C7: the Leafs of updated accounts are passed to the sink in ascending
\* order of hex(leaf_key), and so are the Leafs of created accounts.
C7_LeafsSortedByKey ==
    \A i, j \in 1..Len(output) :
        (i < j /\ output[i].NodeType = Leaf /\ output[j].NodeType = Leaf
               /\ Group(output[i]) = Group(output[j]))
            => SeqLess(Bytes2Hex(output[i].LeafKey), Bytes2Hex(output[j].LeafKey))

\* C8: a sink call that returns an error is the last call of the invocation,
\* and the invocation has ended with a non-nil error.
C8_SinkErrorAborts ==
    \A i \in 1..Len(answers) :
        (answers[i] # nil) => (i = Len(answers) /\ Done /\ retErr # nil)

C8_Witness ==
    /\ Done
    /\ Len(output) >= 3
    /\ Last(answers) # nil
    /\ Last(outputPass) = "buildAccountCreations"

\* C9 as stated: the error returned when the sink failed with e is e itself.
C9_SinkErrorUnchanged ==
    (Done /\ SinkFailed) => retErr = Last(answers)

\* the context WriteStateDiffObject's branch gives the error of each pass
ContextOf(pass) ==
    CASE pass = "createdAndUpdatedState" -> "error collecting createdAndUpdatedNodes"
      [] pass = "deletedOrUpdatedState" -> "error collecting deletedOrUpdatedNodes"
      [] pass = "buildAccountUpdates" -> "error building diff for updated accounts"
      [] pass = "buildAccountCreations" -> "error building diff for created accounts"

\* C9 as amended: the error returned when the sink failed with e is a new
\* error, its text the context of the failing pass followed by the text of e.
C9_SinkErrorInContext ==
    (Done /\ SinkFailed)
        => /\ retErr = <<ContextOf(Last(outputPass))>> \o Last(answers)
           /\ retErr # Last(answers)

C9_Witness ==
    /\ Done /\ SinkFailed
    /\ Last(outputPass) = "deletedOrUpdatedState"
    /\ Len(output) >= 2

\* the Leaf records of the given group that carry a contract account
ContractLeafs(group) ==
    {i \in 1..Len(output) :
        /\ output[i].NodeType = Leaf
        /\ Group(output[i]) = group
        /\ output[i].NodeValue[2].CodeHash # nullCodeHash}

Listed(codes, account) ==
    \E k \in 1..Len(codes) :
        /\ codes[k].Hash = account.CodeHash
        /\ Keccak256Hash(codes[k].Code) = account.CodeHash

\* C10 as stated: the returned list has a pair (code_hash, code) for every
\* emitted account Leaf, created or updated, whose code hash is not that of
\* the empty code.
C10_CodeOfEveryLeaf ==
    Succeeded => \A i \in ContractLeafs(3) \cup ContractLeafs(4) :
                    Listed(retCodes, output[i].NodeValue[2])

\* C10 as amended: the returned list has a pair (code_hash, code) for every
\* emitted Leaf of a created account whose code hash is not that of the empty
\* code, and the Leafs of updated accounts add none.
C10_CodeOfCreatedLeafs ==
    /\ \A i \in ContractLeafs(4) : Listed(codeAndCodeHashes, output[i].NodeValue[2])
    /\ Succeeded =>
          /\ \A i \in ContractLeafs(4) : Listed(retCodes, output[i].NodeValue[2])
          /\ Len(retCodes) = Cardinality(ContractLeafs(4))

C10_Witness ==
    /\ Succeeded
    /\ ContractLeafs(3) # {}
    /\ ContractLeafs(4) # {}
    /\ Len(retCodes) = 1

\* ------------------------------------------------------- claims C11..C20
LeafKeysEmitted == {output[i].LeafKey : i \in {j \in 1..Len(output) : output[j].NodeType = Leaf}}

NoWatchLists ==
    params.WatchedAddresses = {} /\ params.WatchedStorageSlots = {}

\* the leaf keys whose <<key, account>> pair is in one trie and not in the other
SymmetricDifference(a, b) == {decodeNibbles(kv[1]) : kv \in (a \ b) \cup (b \ a)}

\* the leaf keys of the leaf nodes of B that A does not have: the leaves of
\* changed, moved and created accounts
ChangedLeafKeysAtB ==
    {l.LeafKey : l \in {x \in StateLeaves(NewStateRoot) : x.Path \in DifferencePathsAtB}}

C15_OpenFailureBeforeSink ==
    (~Opened) => /\ Len(output) = 0
                 /\ Done => (retErr # nil /\ retCodes = <<>>)

C15_Witness ==
    /\ Done
    /\ OldStateRoot \notin missing /\ NewStateRoot \in missing
    /\ DifferencePaths(OpenTrie(NewStateRoot), OpenTrie(OldStateRoot)) # {}
    /\ retErr = <<"error creating trie for newStateRoot">> \o MissingNode

CodeLookupFailed ==
    /\ Done
    /\ Len(retErr) >= 2
    /\ retErr[2] = "failed to retrieve code for codehash"

CreationRecords == {i \in 1..Len(output) : outputPass[i] = "buildAccountCreations"}

\* C16: when the code lookup for a created contract account has failed, the
\* invocation has returned an error and no code-and-hash list, the account
\* whose lookup failed has no Leaf record, and the sink has seen one record
\* for each account the creations loop finished before it and nothing more.
C16_CodeLookupFailureAborts ==
    CodeLookupFailed
        => /\ retErr # nil
           /\ retCodes = <<>>
           /\ \E key \in RangeNext(diffAccountsAtB) :
                 /\ IsContract(diffAccountsAtB[key].Account)
                 /\ ~EmittedLeaf(diffAccountsAtB[key].LeafKey)
           /\ Cardinality(CreationRecords) = Cardinality(ranged)
           /\ \A i \in CreationRecords : Bytes2Hex(output[i].LeafKey) \in ranged
           /\ \A i \in 1..Len(answers) : answers[i] = nil

C16_Witness ==
    /\ CodeLookupFailed
    /\ Cardinality(ranged) = 1
    /\ Len(codeAndCodeHashes) = 1
    /\ Cardinality(DOMAIN diffAccountsAtB) = 2

RECURSIVE RemovedPaths(_)
\* the paths of the Removed records of a sequence of records, in its order
RemovedPaths(records) ==
    IF Len(records) = 0 THEN <<>>
    ELSE (IF Head(records).NodeType = Removed THEN <<Head(records).Path>> ELSE <<>>)
         \o RemovedPaths(Tail(records))

\* the paths of the structural nodes A has and B has not, less the paths of
\* those B has and A has not
VacatedPaths(a, b) == DifferencePaths(b, a) \ DifferencePaths(a, b)

\* C20: the Removed records are those of the nodes of the walk over A whose
\* path the walk over B did not yield, in the order of the walk, whatever the
\* node type and whatever the params.
C20_RemovedDependOnRootsOnly ==
    LET removed == RemovedPaths(output)
    IN  (Opened /\ (PastRemovals \/ Len(removed) > 0)) =>
            LET vacated == VacatedPaths(OpenTrie(OldStateRoot), OpenTrie(NewStateRoot))
            IN  /\ \A i \in 1..Len(removed) : removed[i] \in vacated
                /\ \A i \in 1..Len(removed) : \A j \in 1..(i - 1) :
                       SeqLess(removed[j], removed[i])
                /\ PastRemovals => Len(removed) = Cardinality(vacated)
                /\ \A i \in 1..Len(output) :
                       (output[i].NodeType = Removed)
                           => (output[i].NodeValue = <<>> /\ output[i].LeafKey = <<>>)

C20_Witness ==
    /\ Succeeded
    /\ params.WatchedAddresses # {}
    /\ Len(RemovedPaths(output)) >= 2
    /\ \E l \in StateLeaves(OldStateRoot) : Emitted(Removed, l.Path)
    /\ \E i \in 1..Len(output) :
          /\ output[i].NodeType = Removed
          /\ \A l \in StateLeaves(OldStateRoot) : l.Path # output[i].Path

\* the storage of an account, from its root
StorageOf(account) == OpenTrie(account.Root)

\* the type of the node a trie has at one of its node paths
TypeAt(content, p) ==
    IF Cardinality(KeysUnder(content, p)) = 1 THEN Leaf
    ELSE IF PartsAt(content, p) THEN Branch
    ELSE Extension

\* the leaf key of the leaf a trie has at the node path p
LeafKeyAt(content, p) == decodeNibbles(CHOOSE k \in KeysUnder(content, p) : TRUE)

\* TRUE when the storage watch list and the intermediate flag let the node
\* a storage trie has at p through
StorageNodePasses(content, p) ==
    IF TypeAt(content, p) = Leaf
    THEN isWatchedStorageKey(params.WatchedStorageSlots, LeafKeyAt(content, p))
    ELSE params.IntermediateStorageNodes

\* the storage records of a walk over all of a storage: <<type, path>> in
\* the order of the walk
EventualStorage(content) ==
    LET paths == SortSet({p \in NodePaths(content) : StorageNodePasses(content, p)})
    IN  [i \in 1..Len(paths) |-> <<TypeAt(content, paths[i]), paths[i]>>]

\* the storage records of the difference between two storages: the nodes
\* of b that a has not, then Removed for the paths of a's own that b's lack
IncrementalStorage(a, b) ==
    LET atB  == SortSet({p \in DifferencePaths(a, b) : StorageNodePasses(b, p)})
        gone == SortSet({p \in DifferencePaths(b, a) \ DifferencePaths(a, b) :
                            StorageNodePasses(a, p)})
    IN  [i \in 1..Len(atB) |-> <<TypeAt(b, atB[i]), atB[i]>>]
        \o [i \in 1..Len(gone) |-> <<Removed, gone[i]>>]

\* the <<type, path>> of the records of a sequence of storage nodes
TypesAndPaths(nodes) == [i \in 1..Len(nodes) |-> <<nodes[i].NodeType, nodes[i].Path>>]

\* TRUE when every record of the nodes that is not Removed carries the node
\* the storage has at its path, and its leaf key if it is a leaf
CarriesNodesOf(nodes, content) ==
    \A i \in 1..Len(nodes) :
        IF nodes[i].NodeType = Removed
        THEN nodes[i].NodeValue = <<>> /\ nodes[i].LeafKey = <<>>
        ELSE /\ nodes[i].NodeValue = NodeElements(Below(content, nodes[i].Path))
             /\ nodes[i].LeafKey = IF nodes[i].NodeType = Leaf
                                   THEN LeafKeyAt(content, nodes[i].Path)
                                   ELSE <<>>

\* the records of the Leafs that carry the given leaf key
LeafsOf(leafKey) ==
    {i \in 1..Len(output) : output[i].NodeType = Leaf /\ output[i].LeafKey = leafKey}

\* the account leaves of B whose key has no leaf in A, watched: the creations
CreatedLeaves ==
    {l \in StateLeaves(NewStateRoot) :
        /\ l.LeafKey \notin LeafKeysAt(OldStateRoot)
        /\ isWatchedAddress(params.WatchedAddresses, l.LeafKey)}

\* the pairs <<leaf at A, leaf at B>> of one watched leaf key whose leaf is
\* not the same node at the same path in the two tries: the updates
UpdatedLeaves ==
    {m \in StateLeaves(OldStateRoot) \X StateLeaves(NewStateRoot) :
        /\ m[1].LeafKey = m[2].LeafKey
        /\ (m[1].Path # m[2].Path \/ m[1].Account # m[2].Account)
        /\ isWatchedAddress(params.WatchedAddresses, m[2].LeafKey)}

\* C11: the returned list has one pair (code_hash, code) for each created
\* account whose code hash is not that of the empty code, and no other pair:
\* none for a created account without code, none for an updated account.
C11_OnePairPerCreatedContract ==
    Succeeded =>
        LET contracts == {l \in CreatedLeaves : l.Account.CodeHash # nullCodeHash}
        IN  /\ Len(retCodes) = Cardinality(contracts)
            /\ \A l \in contracts : Listed(retCodes, l.Account)
            /\ \A k \in 1..Len(retCodes) :
                  /\ Keccak256Hash(retCodes[k].Code) = retCodes[k].Hash
                  /\ \E l \in contracts : l.Account.CodeHash = retCodes[k].Hash

C11_Witness ==
    /\ Succeeded
    /\ Len(retCodes) = 1
    /\ \E l \in CreatedLeaves : l.Account.CodeHash # nullCodeHash
    /\ \E m \in UpdatedLeaves :
          /\ m[1].Account.CodeHash = m[2].Account.CodeHash
          /\ m[1].Account.CodeHash # nullCodeHash
          /\ m[1].Account.Root # m[2].Account.Root
          /\ \E i \in LeafsOf(m[2].LeafKey) : Len(output[i].StorageNodes) > 0

\* C18: the Leaf of every created account carries the storage records of the
\* walk over all of its storage at B, with code or without, and carries none
\* only when its storage root is the empty root (or the storage options let
\* no node through).
C18_CreatedLeafCarriesStorage ==
    Succeeded =>
        \A l \in CreatedLeaves :
            /\ Cardinality(LeafsOf(l.LeafKey)) = 1
            /\ \A i \in LeafsOf(l.LeafKey) :
                  /\ TypesAndPaths(output[i].StorageNodes)
                       = EventualStorage(StorageOf(l.Account))
                  /\ CarriesNodesOf(output[i].StorageNodes, StorageOf(l.Account))

\* C19: for every leaf key with a changed leaf in both tries, one Leaf record
\* is emitted; its path, node value and leaf key are those of the leaf of B;
\* its storage nodes are the difference between the storage at the root the
\* A-side account has and the storage at the root the B-side account has,
\* none when the two roots are equal.
C19_UpdatedLeafIsOfB ==
    Succeeded =>
        \A m \in UpdatedLeaves :
            /\ Cardinality(LeafsOf(m[2].LeafKey)) = 1
            /\ \A i \in LeafsOf(m[2].LeafKey) :
                  /\ output[i].Path = m[2].Path
                  /\ output[i].LeafKey = m[2].LeafKey
                  /\ output[i].NodeValue
                       = NodeElements(Below(OpenTrie(NewStateRoot), m[2].Path))
                  /\ output[i].NodeValue[2] = m[2].Account
                  /\ TypesAndPaths(output[i].StorageNodes)
                       = IncrementalStorage(StorageOf(m[1].Account), StorageOf(m[2].Account))
                  /\ CarriesNodesOf(output[i].StorageNodes, StorageOf(m[2].Account))
                  /\ (m[1].Account.Root = m[2].Account.Root)
                        => output[i].StorageNodes = <<>>

C19_Witness ==
    /\ Succeeded
    /\ \E m \in UpdatedLeaves :
          /\ m[1].Path # m[2].Path
          /\ \E i \in LeafsOf(m[2].LeafKey) :
                /\ \E j, k \in 1..Len(output[i].StorageNodes) :
                      /\ output[i].StorageNodes[j].NodeType = Removed
                      /\ output[i].StorageNodes[k].NodeType = Leaf

\* TRUE when two calls have returned without error, the second being the
\* call of the given method
BothSucceeded(method) ==
    /\ Returned
    /\ caller = method
    /\ Len(previous) = 1
    /\ retErr = nil
    /\ previous[1].retErr = nil

\* the leaf keys of the Leaf records of accounts that have a leaf at oldRoot
UpdatedKeysIn(records, oldRoot) ==
    {records[i].LeafKey : i \in {j \in 1..Len(records) :
        records[j].NodeType = Leaf /\ records[j].LeafKey \in LeafKeysAt(oldRoot)}}

\* the Leaf records of accounts that have no leaf at oldRoot
CreatedIn(records, oldRoot) ==
    {i \in 1..Len(records) :
        records[i].NodeType = Leaf /\ records[i].LeafKey \notin LeafKeysAt(oldRoot)}

\* TRUE when the records report the account of the leaf as removed: a Removed
\* record at the path of the leaf, and no Leaf record with its key
ReportedRemoved(records, leaf) ==
    /\ \E j \in 1..Len(records) :
          records[j].NodeType = Removed /\ records[j].Path = leaf.Path
    /\ \A j \in 1..Len(records) :
          (records[j].NodeType = Leaf) => records[j].LeafKey # leaf.LeafKey

\* C13: of the diff from A to B and the diff from B to A with the same
\* params, the updated Leaf records carry the same set of leaf keys, and an
\* account one diff emits as a created Leaf is reported by the other as
\* Removed and not as a Leaf.
C13_SwappedDiffsMirror ==
    BothSucceeded("WriteStateDiffObject") =>
        LET back == previous[1].output
        IN  /\ UpdatedKeysIn(output, OldStateRoot) = UpdatedKeysIn(back, NewStateRoot)
            /\ \A i \in CreatedIn(output, OldStateRoot) : ReportedRemoved(back, output[i])
            /\ \A i \in CreatedIn(back, NewStateRoot) : ReportedRemoved(output, back[i])

\* TRUE when two slices of state nodes hold the same records, each path once
SameNodes(x, y) ==
    /\ Len(x) = Len(y)
    /\ \A i, j \in 1..Len(x) : (x[i].Path = x[j].Path) => i = j
    /\ \A i \in 1..Len(x) : \E j \in 1..Len(y) :
          /\ x[i].Path = y[j].Path
          /\ x[i].NodeType = y[j].NodeType
          /\ x[i].LeafKey = y[j].LeafKey
          /\ x[i].NodeValue = y[j].NodeValue
          /\ x[i].StorageNodes = y[j].StorageNodes

\* TRUE when two code-and-hash lists hold the same entries as often
SameCodes(x, y) ==
    /\ Len(x) = Len(y)
    /\ \A k \in 1..Len(x) :
          Cardinality({i \in 1..Len(x) : x[i] = x[k]})
            = Cardinality({j \in 1..Len(y) : y[j] = x[k]})

\* C14: BuildStateTrieObject on the block with root R returns the state nodes,
\* each Leaf with its storage nodes, and the code-and-hash entries that
\* BuildStateDiffObject returns from the empty trie to R with both
\* intermediate flags set and no watch list: one record for every structural
\* node of the trie at R.
C14_TrieObjectIsDiffFromEmpty ==
    (/\ BothSucceeded("BuildStateTrieObject")
     /\ previous[1].caller = "BuildStateDiffObject"
     /\ OldStateRoot = emptyContractRoot
     /\ params = FullParams)
        => /\ SameNodes(retObject.Nodes, previous[1].retObject.Nodes)
           /\ SameCodes(retObject.CodeAndCodeHashes, previous[1].retObject.CodeAndCodeHashes)
           /\ {retObject.Nodes[i].Path : i \in 1..Len(retObject.Nodes)}
                = NodePaths(OpenTrie(NewStateRoot))

C14_Witness ==
    /\ BothSucceeded("BuildStateTrieObject")
    /\ previous[1].caller = "BuildStateDiffObject"
    /\ OldStateRoot = emptyContractRoot
    /\ params = FullParams
    /\ Len(retObject.Nodes) = 3
    /\ Len(retObject.CodeAndCodeHashes) = 2
    /\ \E i \in 1..Len(retObject.Nodes) : Len(retObject.Nodes[i].StorageNodes) = 3

\* C17: a call that has returned an error has returned nothing else:
\* WriteStateDiffObject no code-and-hash entry, BuildStateDiffObject and
\* BuildStateTrieObject a StateObject with no node and no code entry,
\* whatever was collected before the failure.
C17_NoPartialResult ==
    (pc \in {"done", "returned"} /\ retErr # nil)
        => /\ retCodes = <<>>
           /\ (pc = "returned") => retObject = EmptyStateObject

C17_Witness ==
    /\ pc = "returned"
    /\ caller = "BuildStateDiffObject"
    /\ retErr # nil
    /\ Len(output) >= 2
    /\ Len(codeAndCodeHashes) >= 1

\* the records of an Extension or a Branch the sink was passed
IntermediateRecords ==
    {i \in 1..Len(output) : output[i].NodeType \in {Extension, Branch}}

\* TRUE when the pass over B has come to its end and the pass over A runs
PastCreatedAndUpdated == pc = "deletedOrUpdatedState"

\* C21: an Extension or a Branch is passed to the sink only when
\* IntermediateStateNodes is set and WatchedAddresses is empty; then the
\* records of these types are, one each and in the order of the walk, the
\* Extension and Branch nodes B has and A has not, each with the type and
\* the value B has at its path, so that a node of these types A alone has
\* is never passed with its own type.  The records are compared with the
\* nodes of B while the passes over B and over A run; no later pass adds one.
C21_IntermediateNodesOfB ==
    LET mid == IntermediateRecords
    IN  /\ ~(params.IntermediateStateNodes /\ params.WatchedAddresses = {}) => mid = {}
        /\ \A i \in mid : outputPass[i] = "createdAndUpdatedState"
        /\ (/\ Opened
            /\ params.IntermediateStateNodes
            /\ params.WatchedAddresses = {}
            /\ pc \in {"createdAndUpdatedState", "deletedOrUpdatedState"}
            /\ (mid # {} \/ PastCreatedAndUpdated)) =>
              LET b     == OpenTrie(NewStateRoot)
                  inner == {p \in DifferencePathsAtB : TypeAt(b, p) # Leaf}
              IN  /\ \A i \in mid :
                        /\ output[i].Path \in inner
                        /\ output[i].NodeType = TypeAt(b, output[i].Path)
                        /\ output[i].NodeValue = NodeElements(Below(b, output[i].Path))
                        /\ output[i].LeafKey = <<>>
                        /\ \A j \in mid : j < i => SeqLess(output[j].Path, output[i].Path)
                  /\ PastCreatedAndUpdated => Cardinality(mid) = Cardinality(inner)

C21_Witness ==
    /\ Succeeded
    /\ \E i \in IntermediateRecords :
          /\ output[i].NodeType = Extension
          /\ TypeAt(OpenTrie(OldStateRoot), output[i].Path) = Branch
    /\ \E i \in IntermediateRecords : output[i].NodeType = Branch
    /\ \E i \in 1..Len(output) : output[i].NodeType = Removed

\* C22: in the storage nodes of an updated account whose storage root
\* changed, the Removed records are those of the nodes A's storage has and
\* B's has not whose path the pass over B did not record, a leaf if its key
\* is watched and an Extension or a Branch if IntermediateStorageNodes is
\* set; none has a path the pass over B recorded, and no path is there twice.
C22_StorageRemovedOnlyOffB ==
    \A m \in {u \in UpdatedLeaves : u[1].Account.Root # u[2].Account.Root} :
        \A i \in LeafsOf(m[2].LeafKey) :
            LET a   == StorageOf(m[1].Account)
                b   == StorageOf(m[2].Account)
                sn  == output[i].StorageNodes
                atB == DifferencePaths(a, b)
                atA == DifferencePaths(b, a)
                removed == {j \in 1..Len(sn) : sn[j].NodeType = Removed}
            IN  /\ {sn[j].Path : j \in removed}
                       = {p \in atA \ atB : StorageNodePasses(a, p)}
                /\ \A j \in removed : sn[j].Path \notin atB
                /\ \A j, k \in 1..Len(sn) : sn[j].Path = sn[k].Path => j = k

C22_Witness ==
    /\ Succeeded
    /\ \E m \in {u \in UpdatedLeaves : u[1].Account.Root # u[2].Account.Root} :
          \E i \in LeafsOf(m[2].LeafKey) :
              LET a  == StorageOf(m[1].Account)
                  b  == StorageOf(m[2].Account)
                  sn == output[i].StorageNodes
              IN  /\ \E j \in 1..Len(sn) : sn[j].NodeType = Removed
                  /\ \E j \in 1..Len(sn) : sn[j].NodeType = Leaf
                  /\ \E p \in DifferencePaths(b, a) \cap DifferencePaths(a, b) :
                        StorageNodePasses(a, p) /\ Len(p) > 0

\* the storage leaves of A that a Removed record of the nodes stands for
DeletedStorageLeaves(a, nodes) ==
    {nodes[j].Path : j \in {k \in 1..Len(nodes) :
        nodes[k].NodeType = Removed /\ TypeAt(a, nodes[k].Path) = Leaf}}

\* C23: with storage slots watched, the leaf key of every storage Leaf of
\* every account record is a watched key, for a created account as for an
\* updated one, and a Removed storage record at the path of a storage leaf
\* of A is there only if the key of that leaf is watched.
C23_WatchedStorageSlotsOnly ==
    params.WatchedStorageSlots # {} =>
        \A i \in 1..Len(output) :
            output[i].NodeType = Leaf =>
                LET sn == output[i].StorageNodes
                IN  /\ \A j \in 1..Len(sn) :
                          sn[j].NodeType = Leaf
                              => sn[j].LeafKey \in params.WatchedStorageSlots
                    /\ \A m \in UpdatedLeaves :
                          m[2].LeafKey = output[i].LeafKey =>
                              \A p \in DeletedStorageLeaves(StorageOf(m[1].Account), sn) :
                                  LeafKeyAt(StorageOf(m[1].Account), p)
                                      \in params.WatchedStorageSlots

C23_Witness ==
    /\ Succeeded
    /\ params.WatchedStorageSlots # {}
    /\ \E m \in UpdatedLeaves : \E i \in LeafsOf(m[2].LeafKey) :
          LET a == StorageOf(m[1].Account)
              b == StorageOf(m[2].Account)
          IN  /\ DeletedStorageLeaves(a, output[i].StorageNodes) # {}
              /\ \E p \in DifferencePaths(b, a) \ DifferencePaths(a, b) :
                    /\ TypeAt(a, p) = Leaf
                    /\ LeafKeyAt(a, p) \notin params.WatchedStorageSlots
    /\ \E l \in CreatedLeaves : \E i \in LeafsOf(l.LeafKey) :
          \E j \in 1..Len(output[i].StorageNodes) :
              output[i].StorageNodes[j].NodeType = Leaf

\* C24: every record passed to the sink has the shape of its type: a
\* Removed record has an empty node value, no leaf key and no storage nodes;
\* a Leaf record has a leaf key and a node value that is not empty; an
\* Extension or a Branch record has a node value that is not empty, no leaf
\* key and no storage nodes.
C24_RecordShapes ==
    \A i \in 1..Len(output) :
        LET r == output[i]
        IN  /\ r.NodeType \in {Removed, Leaf, Extension, Branch}
            /\ r.NodeType = Removed =>
                  r.NodeValue = <<>> /\ r.LeafKey = <<>> /\ r.StorageNodes = <<>>
            /\ r.NodeType = Leaf =>
                  Len(r.LeafKey) > 0 /\ Len(r.NodeValue) > 0
            /\ r.NodeType \in {Extension, Branch} =>
                  Len(r.NodeValue) > 0 /\ r.LeafKey = <<>> /\ r.StorageNodes = <<>>

C24_Witness ==
    /\ Succeeded
    /\ \A ty \in {Removed, Extension, Branch} :
          \E i \in 1..Len(output) : output[i].NodeType = ty
    /\ \E i \in 1..Len(output) :
          output[i].NodeType = Leaf /\ Len(output[i].StorageNodes) > 0

\* the leaf keys of the Leaf records passed to the sink by one pass
LeafKeysOfPass(pass) ==
    {output[i].LeafKey : i \in {k \in 1..Len(output) :
        output[k].NodeType = Leaf /\ outputPass[k] = pass}}

\* C25: no leaf key is in more than one Leaf record of an invocation: the
\* keys of the updates and the keys of the creations have nothing in common,
\* and no key of an update is left in the map the creations are taken from.
C25_OneLeafPerKey ==
    /\ \A i, j \in 1..Len(output) :
          (/\ output[i].NodeType = Leaf
           /\ output[j].NodeType = Leaf
           /\ output[i].LeafKey = output[j].LeafKey) => i = j
    /\ LeafKeysOfPass("buildAccountUpdates") \cap LeafKeysOfPass("buildAccountCreations") = {}
    /\ pc = "buildAccountCreations" =>
          DOMAIN diffAccountsAtB \cap LeafKeysOfPass("buildAccountUpdates") = {}

C25_Witness ==
    /\ Succeeded
    /\ LeafKeysOfPass("buildAccountUpdates") # {}
    /\ LeafKeysOfPass("buildAccountCreations") # {}

\* TRUE when neither a call of the API nor send or close is under way
NoCallUnderWay == client.pc = "idle" /\ loop.pc \notin {"sendRange", "closeRange"}

\* C26: every call of Unsubscribe has released the mutex of the service
\* when it returns, the call for an id with no subscription, which returns
\* an error, too: whenever no call of Subscribe or Unsubscribe is under way
\* and Loop is outside send and close, the mutex is unlocked, so that the
\* next Subscribe, Unsubscribe, send or close can lock it.
C26_UnsubscribeReleasesMutex == NoCallUnderWay => Mutex = ""

\* TRUE for a step of send's range that visits the subscription of the id
Visits(id) == id \in loop'.ranged \ loop.ranged

\* C27: send never waits for a subscriber: whatever the channels hold, the
\* next iteration of its range can be taken; an iteration puts the payload
\* once on the channel of the subscription it visits if that channel can
\* take it and leaves the channel as it is if not, touches no other
\* channel, and leaves every subscription in the map; send visits every
\* subscription, each once, and unlocks the mutex when it returns.
C27_SendNeverWaitsForSubscriber ==
    /\ [](loop.pc = "sendRange" => ENABLED (send \/ sendUnlock))
    /\ [][(loop.pc = "sendRange" /\ loop' # loop) =>
            /\ Subscriptions' = Subscriptions
            /\ Cardinality(loop'.ranged \ loop.ranged) <= 1
            /\ loop.ranged \subseteq loop'.ranged \/ loop'.pc = "select"
            /\ \A id \in IDs :
                  IF Visits(id) /\ Len(PayloadChans[id]) < Subscriptions[id].PayloadChan
                  THEN PayloadChans'[id] = Append(PayloadChans[id], loop.payload)
                  ELSE PayloadChans'[id] = PayloadChans[id]
            /\ loop'.pc = "select" =>
                  /\ loop.ranged = DOMAIN Subscriptions
                  /\ Mutex = "send"
                  /\ Mutex' = ""]_vars

\* send has returned: the payload of the second block is on the channel of
\* one subscriber, and the other subscriber, whose channel still holds the
\* payload of the first block, was passed over and is still subscribed
C27_Witness ==
    /\ loop.pc = "select"
    /\ Mutex = ""
    /\ DOMAIN Subscriptions = IDs
    /\ \E id, other \in IDs :
          /\ Payload(Block(2)) \in Range(PayloadChans[id])
          /\ PayloadChans[other] = <<Payload(Block(1))>>

\* C28: once Stop has closed QuitChan, the goroutine of Loop comes to run
\* close and to return, wherever it stands, also where it has taken a block
\* and waits for the parent block.
C28_LoopReturnsAfterStop == (QuitChan = "closed") ~> (loop.pc = "return")
====
